---------------------------- MODULE Spec2Model ----------------------------
(***************************************************************************)
(* Model of reorganize_samples.py: the path-construction pipeline          *)
(* (categorize, bpm/key tags, enforce_m8_limit, _unique) and safe_write's  *)
(* placement on a filesystem of directories, regular files (inodes),       *)
(* symbolic links and hard links.                                          *)
(*                                                                         *)
(* Python str values are TLA+ strings; a path is the sequence of its       *)
(* segments below the root it is relative to.                              *)
(***************************************************************************)
EXTENDS Integers, Sequences, FiniteSets, TLC

(***************************************************************************)
(* Python str primitives                                                   *)
(***************************************************************************)
Min(a, b) == IF a <= b THEN a ELSE b
Max(a, b) == IF a >= b THEN a ELSE b

\* F(v), with v evaluated once however often F uses it
With(v, F(_)) == CHOOSE r \in {F(x) : x \in {v}} : TRUE

\* s[i] for a 1-based index, "" outside the string
Ch(s, i) == IF 1 <= i /\ i <= Len(s) THEN SubSeq(s, i, i) ELSE ""

\* s[:n], Python semantics: a negative n counts from the end
PyPrefix(s, n) ==
    IF n >= 0 THEN SubSeq(s, 1, Min(n, Len(s)))
              ELSE SubSeq(s, 1, Max(0, Len(s) + n))

\* s[k:], Python semantics: a negative k counts from the end
PyFrom(s, k) ==
    IF k >= 0 THEN SubSeq(s, Min(k, Len(s)) + 1, Len(s))
              ELSE SubSeq(s, Max(0, Len(s) + k) + 1, Len(s))

UpperChars == "ABCDEFGHIJKLMNOPQRSTUVWXYZ"
LowerChars == "abcdefghijklmnopqrstuvwxyz"
DigitChars == "0123456789"
HexChars == "0123456789abcdef"
\* the characters the digest stand-in gives a code to
CodeChars == " !#+-.[]_~0123456789ABCDEFGHIJKLMNOPQRSTUVWXYZabcdefghijklmnopqrstuvwxyz"

\* the characters of a string, as a set
CharSet(chars) == {Ch(chars, i) : i \in 1..Len(chars)}

UpperSet == CharSet(UpperChars)
LowerSet == CharSet(LowerChars)
DigitSet == CharSet(DigitChars)
AlnumSet == UpperSet \cup LowerSet \cup DigitSet

\* the lowercase of every uppercase letter, the uppercase of every lowercase letter
LowerOf == [c \in UpperSet |-> Ch(LowerChars, CHOOSE i \in 1..26 : Ch(UpperChars, i) = c)]
UpperOf == [c \in LowerSet |-> Ch(UpperChars, CHOOSE i \in 1..26 : Ch(LowerChars, i) = c)]
CodeOf == [c \in CharSet(CodeChars) |-> CHOOSE i \in 1..Len(CodeChars) : Ch(CodeChars, i) = c]

IsUpper(c) == c \in UpperSet
IsLowerCh(c) == c \in LowerSet
IsDigit(c) == c \in DigitSet
IsAlnum(c) == c \in AlnumSet
\* \w of the re module, for ASCII text
IsWord(c) == IsAlnum(c) \/ c = "_"
\* \s of the re module, and str.strip()'s default
IsSpace(c) == c \in {" ", "\t", "\n", "\r", "\f"}

LowerCh(c) == IF IsUpper(c) THEN LowerOf[c] ELSE c
UpperCh(c) == IF IsLowerCh(c) THEN UpperOf[c] ELSE c

\* "".join(F(i) for i in lo..hi), halving the range to keep the evaluation shallow
RECURSIVE ConcatMap(_, _, _)
ConcatMap(F(_), lo, hi) ==
    IF lo > hi THEN ""
    ELSE IF lo = hi THEN F(lo)
    ELSE LET mid == (lo + hi) \div 2
         IN ConcatMap(F, lo, mid) \o ConcatMap(F, mid + 1, hi)

\* sum(F(i) for i in lo..hi) % m
RECURSIVE SumMap(_, _, _, _)
SumMap(F(_), lo, hi, m) ==
    IF lo > hi THEN 0
    ELSE IF lo = hi THEN F(lo) % m
    ELSE LET mid == (lo + hi) \div 2
         IN (SumMap(F, lo, mid, m) + SumMap(F, mid + 1, hi, m)) % m

SetMin(S) == CHOOSE i \in S : \A j \in S : i <= j
SetMax(S) == CHOOSE i \in S : \A j \in S : i >= j

MapLower(s) == With(s, LAMBDA t : ConcatMap(LAMBDA i : LowerCh(Ch(t, i)), 1, Len(t)))

\* str.lower()
norm(s) == MapLower(s)

\* kw in s
Contains(s, kw) ==
    \E t \in {s} : \E i \in 1..(Len(t) - Len(kw) + 1) : SubSeq(t, i, i + Len(kw) - 1) = kw

\* s.startswith(p)
StartsWith(s, p) == Len(p) <= Len(s) /\ SubSeq(s, 1, Len(p)) = p

\* s.endswith(p)
EndsWith(s, p) == Len(p) <= Len(s) /\ PyFrom(s, Len(s) - Len(p)) = p

\* s.rfind(c) as a 1-based index, 0 when c does not occur
RFind(s, c) ==
    With(s, LAMBDA t :
        With({i \in 1..Len(t) : Ch(t, i) = c},
             LAMBDA at : IF at = {} THEN 0 ELSE SetMax(at)))

\* s.lstrip(chars)
LStripSet(s, chars) ==
    With(s, LAMBDA t :
        With({i \in 1..Len(t) : Ch(t, i) \notin chars},
             LAMBDA keep : IF keep = {} THEN "" ELSE PyFrom(t, SetMin(keep) - 1)))

\* s.rstrip(chars)
RStripSet(s, chars) ==
    With(s, LAMBDA t :
        With({i \in 1..Len(t) : Ch(t, i) \notin chars},
             LAMBDA keep : IF keep = {} THEN "" ELSE PyPrefix(t, SetMax(keep))))

\* s.strip(chars)
StripSet(s, chars) == RStripSet(LStripSet(s, chars), chars)

\* s.strip()
StripSpace(s) == StripSet(s, {" ", "\t", "\n", "\r", "\f"})

\* s.split(sep) for a one-character sep: empty tokens are kept
\* the tokens of t between the separator positions at
SplitAt(t, at) ==
    LET n == Cardinality(at)
        pos(k) == CHOOSE p \in at : Cardinality({q \in at : q < p}) = k - 1
    IN [k \in 1..(n + 1) |->
            SubSeq(t, IF k = 1 THEN 1 ELSE pos(k - 1) + 1,
                      IF k = n + 1 THEN Len(t) ELSE pos(k) - 1)]

Split(s, sep) ==
    With(s, LAMBDA t : With({i \in 1..Len(t) : Ch(t, i) = sep}, LAMBDA at : SplitAt(t, at)))

\* sep.join(toks)
Join(toks, sep) ==
    With(toks, LAMBDA ts :
        ConcatMap(LAMBDA k : IF k = 1 THEN ts[1] ELSE sep \o ts[k], 1, Len(ts)))

\* c * n
Rep(c, n) == ConcatMap(LAMBDA i : c, 1, n)


(***************************************************************************)
(* Program constants                                                       *)
(***************************************************************************)
MAX_REL_PATH_CHARS == 128

FILLER_WORDS ==
    {"the", "and", "with", "from", "for", "of", "loop", "sample", "one-shot",
     "oneshot", "onesht", "shot", "stereo", "mono", "wet", "dry", "mix", "ver",
     "take", "take1", "take2", "v1", "v2", "pack", "splice"}

\* the character class of SEPARATORS_RE
SepChars == {" ", "\t", "\n", "\r", "\f", "-", ".", "_"}

AUDIO_EXTS == {".wav", ".aif", ".aiff", ".flac", ".mp3", ".ogg", ".m4a"}

CATEGORY_RULES ==
    << [keywords |-> <<"kick", "bd", "subkick">>, target |-> "Drums/Kicks"],
       [keywords |-> <<"snare", "rimshot", "rim">>, target |-> "Drums/Snares"],
       [keywords |-> <<"clap">>, target |-> "Drums/Claps"],
       [keywords |-> <<"hi hat", "hi-hat", "hihat", "hat">>, target |-> "Drums/Hats"],
       [keywords |-> <<"tom">>, target |-> "Drums/Toms"],
       [keywords |-> <<"ride", "crash", "splash", "china", "cymbal">>,
        target |-> "Drums/Cymbals"],
       [keywords |-> <<"shaker", "tamb", "tambo", "tambourine", "bongo", "conga",
                       "timbale", "cowbell", "clave", "guiro", "agogo", "block">>,
        target |-> "Drums/Percussion"],
       [keywords |-> <<"break", "breakbeat", "amen", "funky drummer">>,
        target |-> "Loops/Drums/Breaks"],
       [keywords |-> <<"top loop", "tops">>, target |-> "Loops/Drums/Tops"],
       [keywords |-> <<"drum loop", "beat loop", "beat", "loop drums">>,
        target |-> "Loops/Drums"],
       [keywords |-> <<"808">>, target |-> "Bass/808"],
       [keywords |-> <<"bass", "sub">>, target |-> "Bass"],
       [keywords |-> <<"pad">>, target |-> "Synth/Pads"],
       [keywords |-> <<"lead">>, target |-> "Synth/Leads"],
       [keywords |-> <<"pluck">>, target |-> "Synth/Plucks"],
       [keywords |-> <<"arpeggio", "arp">>, target |-> "Synth/Arps"],
       [keywords |-> <<"synth">>, target |-> "Synth"],
       [keywords |-> <<"piano", "keys", "rhodes", "wurlitzer", "organ", "epiano">>,
        target |-> "Keys"],
       [keywords |-> <<"guitar", "gtr">>, target |-> "Guitar"],
       [keywords |-> <<"violin", "viola", "cello", "strings", "pizzicato">>,
        target |-> "Strings"],
       [keywords |-> <<"sax", "saxophone", "trumpet", "trombone", "horn", "brass">>,
        target |-> "Brass"],
       [keywords |-> <<"flute", "clarinet", "oboe", "bassoon", "woodwind">>,
        target |-> "Winds"],
       [keywords |-> <<"vocal", "vox", "choir", "chant", "adlib", "ad-lib", "adlib">>,
        target |-> "Vocals"],
       [keywords |-> <<"fx", "sfx", "sweep", "riser", "rise", "downlifter", "downer",
                       "impact", "boom", "whoosh", "glitch", "stutter">>,
        target |-> "FX"],
       [keywords |-> <<"noise", "texture", "atmo", "ambience", "ambient", "drone",
                       "foley", "field">>,
        target |-> "Textures Foley"],
       [keywords |-> <<"loop">>, target |-> "Loops/Misc"],
       [keywords |-> <<"one shot", "oneshot", "shot">>, target |-> "One Shots/Misc"] >>

(***************************************************************************)
(* _sha7: the first 7 hex digits of a digest of the string.  SHA-1 itself  *)
(* is not computed; the stand-in is a deterministic 28-bit digest of the   *)
(* characters, rendered as 7 lowercase hex digits like hexdigest()[:7].    *)
(***************************************************************************)
CharCode(c) == IF c \in DOMAIN CodeOf THEN CodeOf[c] ELSE 0

\* every character weighs in by its code and its position
Digest28(s) ==
    With(s, LAMBDA t :
        SumMap(LAMBDA i : (CharCode(Ch(t, i)) + 1) * (((i * i + 31 * i + 7) % 4093) * 6553 + 1),
               1, Len(t), 268435456))

RECURSIVE HexDigits(_, _)
HexDigits(n, width) ==
    IF width = 0 THEN ""
    ELSE HexDigits(n \div 16, width - 1) \o Ch(HexChars, (n % 16) + 1)

_sha7(s) == HexDigits((Digest28(s) + 5381 * (Len(s) + 1)) % 268435456, 7)

(***************************************************************************)
(* Name normalizer                                                         *)
(***************************************************************************)
\* RE.sub("_", s) for a character class repeated with +
SubRuns(s, chars) ==
    With(s, LAMBDA t :
        ConcatMap(LAMBDA i : IF Ch(t, i) \notin chars THEN Ch(t, i)
                             ELSE IF i > 1 /\ Ch(t, i - 1) \in chars THEN ""
                             ELSE "_",
                  1, Len(t)))

_collapse(name) ==
    LET name1 == SubRuns(StripSpace(name), SepChars)
    IN StripSet(SubRuns(name1, {"_"}), {"_"})

_drop_filler(name) ==
    With(Join(SelectSeq(Split(name, "_"), LAMBDA t : norm(t) \notin FILLER_WORDS), "_"),
         LAMBDA joined : IF joined # "" THEN joined ELSE name)

\* VOWELS_RE.sub("", t): a vowel goes when a character stands before and after it
VowelsSub(tok) ==
    With(tok, LAMBDA t :
        ConcatMap(LAMBDA i : IF /\ 1 < i /\ i < Len(t)
                                /\ LowerCh(Ch(t, i)) \in {"a", "e", "i", "o", "u", "y"}
                                /\ Ch(t, i - 1) # "\n" /\ Ch(t, i + 1) # "\n"
                             THEN "" ELSE Ch(t, i),
                  1, Len(t)))

_mid_vowel_strip(name) ==
    With(Split(name, "_"), LAMBDA toks :
        StripSet(SubRuns(Join([k \in 1..Len(toks) |-> VowelsSub(toks[k])], "_"), {"_"}),
                 {"_"}))

\* NON_ALNUM_RE.sub("_", s): one underscore per character
NonAlnumSub(s) ==
    With(s, LAMBDA t :
        ConcatMap(LAMBDA i : IF IsAlnum(Ch(t, i)) \/ Ch(t, i) \in {"+", "#"}
                             THEN Ch(t, i) ELSE "_",
                  1, Len(t)))

\* pack_hint is "" for None
\* the pack prefix goes from the collapsed stem s0, with or without its underscore
StripPack(s0, pack_hint) ==
    LET ph == _collapse(pack_hint)
        \* the part of s.lower() that startswith looks at
        low == norm(PyPrefix(s0, Len(ph) + 1))
    IN IF pack_hint = "" THEN s0
       ELSE IF StartsWith(low, norm(ph) \o "_") THEN PyFrom(s0, Len(ph) + 1)
       ELSE IF StartsWith(low, norm(ph)) THEN PyFrom(s0, Len(ph))
       ELSE s0

_shorten_stem(stem, pack_hint) ==
    With(StripSet(SubRuns(NonAlnumSub(
             _mid_vowel_strip(_drop_filler(
                 With(_collapse(stem), LAMBDA s0 : StripPack(s0, pack_hint))))),
             {"_"}), {"_"}),
         LAMBDA s : IF s # "" THEN s ELSE "x")

(***************************************************************************)
(* _unique                                                                 *)
(***************************************************************************)
\* _unique once cand is known to be taken
UniqueHashed(cand, suffix, existing, max_len, orig) ==
    LET room == max_len - Len(suffix)
        base == PyPrefix(cand, room)
        final == base \o suffix
    IN IF room < 1 THEN PyFrom(suffix, -max_len)
       ELSE IF final \in existing
            THEN PyPrefix(PyPrefix(orig, Max(1, room - 1)) \o suffix, max_len)
       ELSE final

\* _unique with the disambiguator appended to the whole candidate, no room reserved
_unique_append(suggested, existing, max_len, orig) ==
    LET cand == PyPrefix(suggested, max_len)
    IN IF cand \notin existing THEN cand ELSE cand \o "~" \o _sha7(orig)

_unique(suggested, existing, max_len, orig) ==
    LET cand == PyPrefix(suggested, max_len)
    IN IF cand \notin existing THEN cand
       ELSE With("~" \o _sha7(orig),
                 LAMBDA suffix : UniqueHashed(cand, suffix, existing, max_len, orig))

(***************************************************************************)
(* pathlib: a path is the sequence of its segments                         *)
(***************************************************************************)
\* path.name
PathName(path) == IF path = <<>> THEN "" ELSE path[Len(path)]

\* path.parent
PathParent(path) == IF path = <<>> THEN <<>> ELSE SubSeq(path, 1, Len(path) - 1)

\* path / s: s is split at "/", empty and "." segments are dropped
PathJoin(path, s) ==
    path \o SelectSeq(Split(s, "/"), LAMBDA seg : seg # "" /\ seg # ".")

\* the suffix of a file name: from the last dot, unless that dot leads or ends the name
NameSuffix(name) ==
    With(RFind(name, "."),
         LAMBDA i : IF 1 < i /\ i < Len(name) THEN PyFrom(name, i - 1) ELSE "")

\* the stem of a file name
NameStem(name) ==
    With(RFind(name, "."),
         LAMBDA i : IF 1 < i /\ i < Len(name) THEN PyPrefix(name, i - 1) ELSE name)

RECURSIVE SumLen(_, _)
SumLen(path, k) == IF k = 0 THEN 0 ELSE Len(path[k]) + SumLen(path, k - 1)

\* len(str(rel)): the segments and their separators, "." for the empty path
RelLen(rel) == IF rel = <<>> THEN 1 ELSE SumLen(rel, Len(rel)) + Len(rel) - 1

\* the prefixes of a path, itself included: what mkdir(parents=True) creates
Prefixes(path) == {SubSeq(path, 1, k) : k \in 1..Len(path)}

(***************************************************************************)
(* categorize                                                              *)
(***************************************************************************)
\* path is the absolute source path; every ancestor name enters the haystack
Haystack(path) ==
    LET n == Len(path)
    IN Join([k \in 1..n |-> path[n - k + 1]], " ")

\* categorize with the last matching rule winning
categorize_last_match(path) ==
    LET hay_n == norm(Haystack(path))
        hits == {r \in 1..Len(CATEGORY_RULES) :
                    \E k \in 1..Len(CATEGORY_RULES[r].keywords) :
                        Contains(hay_n, CATEGORY_RULES[r].keywords[k])}
    IN IF hits # {} THEN CATEGORY_RULES[SetMax(hits)].target
       ELSE IF Contains(hay_n, "loop") THEN "Loops/Misc"
       ELSE "Unsorted"

categorize(path) ==
    LET hay_n == norm(Haystack(path))
        hits == {r \in 1..Len(CATEGORY_RULES) :
                    \E k \in 1..Len(CATEGORY_RULES[r].keywords) :
                        Contains(hay_n, CATEGORY_RULES[r].keywords[k])}
    IN IF hits # {} THEN CATEGORY_RULES[SetMin(hits)].target
       ELSE IF Contains(hay_n, "loop") THEN "Loops/Misc"
       ELSE "Unsorted"

(***************************************************************************)
(* BPM_PAT and KEY_PAT                                                     *)
(***************************************************************************)
\* \b between character k and character k+1 (k = 0: before the first)
Boundary(s, k) == IsWord(Ch(s, k)) # IsWord(Ch(s, k + 1))

\* the lowercase literal lit stands in s at index p, whatever the case (re.I)
LitAt(s, p, lit) ==
    /\ p >= 1
    /\ p + Len(lit) - 1 <= Len(s)
    /\ norm(SubSeq(s, p, p + Len(lit) - 1)) = lit

\* \b(\d{2,3})\s?bpm\b matched at p with d digits
BpmMatch(s, p, d) ==
    LET q == p + d
    IN /\ Boundary(s, p - 1)
       /\ \A i \in p..(q - 1) : IsDigit(Ch(s, i))
       /\ \/ IsSpace(Ch(s, q)) /\ LitAt(s, q + 1, "bpm") /\ Boundary(s, q + 3)
          \/ LitAt(s, q, "bpm") /\ Boundary(s, q + 2)

\* m_bpm.group(1) of BPM_PAT.search(s), "" when there is no match
BpmOf(s) ==
    LET starts == {p \in 1..Len(s) : BpmMatch(s, p, 3) \/ BpmMatch(s, p, 2)}
        p0 == SetMin(starts)
    IN IF starts = {} THEN ""
       ELSE IF BpmMatch(s, p0, 3) THEN SubSeq(s, p0, p0 + 2)
       ELSE SubSeq(s, p0, p0 + 1)

\* the ways KEY_PAT can match at one position, in the order the matcher tries them:
\* the accidental taken before skipped, the separator taken before skipped,
\* the qualities in the order of the alternation before none
KeyQuals == <<"maj", "min", "m", "minor", "major", "">>
KeyTries ==
    [n \in 1..24 |->
        [acc |-> (n - 1) \div 12 = 0,
         sep |-> ((n - 1) \div 6) % 2 = 0,
         qual |-> KeyQuals[((n - 1) % 6) + 1]]]

KeyMatch(s, p, try) ==
    LET q1 == p + 1 + (IF try.acc THEN 1 ELSE 0)
        q2 == q1 + (IF try.sep THEN 1 ELSE 0)
    IN /\ Boundary(s, p - 1)
       /\ LowerCh(Ch(s, p)) \in {"a", "b", "c", "d", "e", "f", "g"}
       /\ try.acc => LowerCh(Ch(s, p + 1)) \in {"#", "b"}
       /\ try.sep => (IsSpace(Ch(s, q1)) \/ Ch(s, q1) \in {"-", "_"})
       /\ LitAt(s, q2, try.qual)
       /\ Boundary(s, q2 + Len(try.qual) - 1)

\* where KEY_PAT matches in s
KeyStarts(s) == {p \in 1..Len(s) : \E n \in 1..24 : KeyMatch(s, p, KeyTries[n])}

\* the first way KEY_PAT matches at p0
KeyTryAt(s, p0) == KeyTries[SetMin({n \in 1..24 : KeyMatch(s, p0, KeyTries[n])})]

\* letter + accidental when the accidental is '#' or 'b', the letter alone otherwise
KeyBase(letter, accidental) ==
    IF accidental \in {"#", "b"} THEN letter \o accidental ELSE letter

\* key_tag for m_key.group(1) = raw and m_key.group(2) = qual
KeyTag(raw, qual) ==
    KeyBase(UpperCh(Ch(raw, 1)), PyFrom(raw, 1))
        \o (IF qual \in {"m", "min", "minor"} THEN "m" ELSE "")

KeyGroups(s, p0, try) ==
    KeyTag(SubSeq(s, p0, p0 + (IF try.acc THEN 1 ELSE 0)), try.qual)

KeySearch(s, starts) ==
    IF starts = {} THEN "" ELSE KeyGroups(s, SetMin(starts), KeyTryAt(s, SetMin(starts)))

\* the key tag the driver derives from KEY_PAT.search(s), "" when there is no match
KeyOf(s) == KeySearch(s, KeyStarts(s))

\* tags of the driver: the bpm tag, then the key tag
Tags(bpm, key) ==
    (IF bpm # "" THEN <<bpm \o "bpm">> ELSE <<>>)
        \o (IF key # "" THEN <<key>> ELSE <<>>)

TagFmt(tags) == IF tags # <<>> THEN " [" \o Join(tags, " ") \o "]" ELSE ""

\* tag_str of the driver
TagStr(fname) == TagFmt(Tags(BpmOf(fname), KeyOf(fname)))

(***************************************************************************)
(* Bounds and inputs                                                       *)
(***************************************************************************)
\* same-named files in different packs
NumDup == 3
\* length of the stem of the over-long file
LongLen == 130
\* invocations of the driver in one behaviour
MaxRuns == 2
\* direct calls of safe_write in one behaviour
MaxCalls == 2
\* length of the first directory of the deep destinations
DeepLen == 100

\* the absolute source root (--source, resolved)
SrcRoot == <<"Lib">>

\* the files below the source root, by their path relative to it
Sources ==
    [i \in 1..NumDup |-> <<"Pack" \o Ch(DigitChars, i + 1), "kick.wav">>]
    \o << <<"Vendor", "Vendor_" \o Rep("z", LongLen) \o ".wav">>,
          <<"Breaks", "Amen Loop 172bpm.wav">>,
          <<"Loops", "Snare Break Cm.wav">>,
          <<"Pack1", "kick pattern.mid">> >>

SrcIds == 1..Len(Sources)

\* the source trees a behaviour starts from
Trees == { 1..NumDup, (NumDup + 1)..Len(Sources) }

Modes == {"move", "copy", "symlink"}

NoPath == <<"?">>

(***************************************************************************)
(* The filesystem.  Source file i is inode i and starts with content i.    *)
(* The destination tree maps a path relative to the destination root to a  *)
(* regular file (an inode) or to a symbolic link to a source file.         *)
(***************************************************************************)
VARIABLES
    mode,               \* --mode, or the mode argument of a direct call
    include_non_audio,  \* --include-non-audio
    dry_run,            \* --dry-run of the current run
    can_symlink,        \* the platform lets symlink_to succeed
    can_hardlink,       \* the platform lets os.link succeed
    src_alive,          \* src_alive[i]: source file i exists
    data,               \* data[n]: content of inode n
    dst_dirs,           \* directories below the destination root
    dst_files,          \* files and links below the destination root
    run,                \* number of the current run (0: no driver run)
    todo,               \* source files the enumeration has not yielded yet
    records,            \* what each processed file was reported as
    error,              \* exception that ended the run or the call, "" if none
    last,               \* trace of the latest safe_write call
    history,            \* history[r]: how run r ended
    calls               \* direct calls made

vars == <<mode, include_non_audio, dry_run, can_symlink, can_hardlink, src_alive,
          data, dst_dirs, dst_files, run, todo, records, error, last, history, calls>>

FS == [dirs |-> dst_dirs, files |-> dst_files, alive |-> src_alive, data |-> data]

FileEntry(n) == [kind |-> "file", ref |-> n]
LinkEntry(i) == [kind |-> "symlink", ref |-> i]

\* os.path.lexists
Lexists(fs, path) == path = <<>> \/ path \in fs.dirs \/ path \in DOMAIN fs.files

\* os.path.isdir
IsDir(fs, path) == path = <<>> \/ path \in fs.dirs

\* Path.is_file: symbolic links are followed
IsFile(fs, path) ==
    /\ path \in DOMAIN fs.files
    /\ fs.files[path].kind = "symlink" => fs.alive[fs.files[path].ref]

\* os.path.exists: symbolic links are followed
Exists(fs, path) == IsDir(fs, path) \/ IsFile(fs, path)

\* the inode a path leads to
InodeAt(fs, path) == fs.files[path].ref

\* {p.name for p in dir.iterdir() if p.is_file()}
Siblings(fs, dir) ==
    {PathName(q) : q \in {r \in DOMAIN fs.files : PathParent(r) = dir /\ IsFile(fs, r)}}

\* what a read of the path returns
ReadAt(fs, path) == fs.data[InodeAt(fs, path)]

NewInode(fs) == SetMax(DOMAIN fs.data) + 1

(***************************************************************************)
(* enforce_m8_limit                                                        *)
(***************************************************************************)
\* the arguments of the _unique call of enforce_m8_limit
EnforceArgs(fs, out_path, pack_hint) ==
    LET parent == PathParent(out_path)
        max_name_len == MAX_REL_PATH_CHARS - RelLen(parent) - 1
        ext == NameSuffix(PathName(out_path))
        max_stem_len == Max(1, max_name_len - Len(ext))
    IN [suggested |->
            With(_shorten_stem(NameStem(PathName(out_path)), pack_hint),
                 LAMBDA stem : IF Len(stem) > max_stem_len
                               THEN PyPrefix(stem, max_stem_len) ELSE stem) \o ext,
        existing |-> Siblings(fs, parent) \ {PathName(out_path)},
        max_len |-> max_name_len,
        orig |-> PathName(out_path)]

\* the record of one _unique call: its arguments a and its result
UniqueCall(a) ==
    [suggested |-> a.suggested, existing |-> a.existing, max_len |-> a.max_len,
     orig |-> a.orig, result |-> _unique(a.suggested, a.existing, a.max_len, a.orig)]

\* the _unique call enforce_m8_limit makes, <<>> when the path is within the limit
EnforceCall(fs, out_path, pack_hint) ==
    IF RelLen(out_path) <= MAX_REL_PATH_CHARS THEN <<>>
    ELSE <<With(EnforceArgs(fs, out_path, pack_hint), UniqueCall)>>

\* enforce_m8_limit, given the _unique call it makes
EnforceResult(out_path, call) ==
    IF call = <<>> THEN out_path ELSE PathJoin(PathParent(out_path), call[1].result)

enforce_m8_limit(fs, out_path, pack_hint) ==
    EnforceResult(out_path, EnforceCall(fs, out_path, pack_hint))

(***************************************************************************)
(* The placement primitives.  Each yields the filesystem it leaves, the    *)
(* exception it raises ("" for none) and the attempts it made.             *)
(***************************************************************************)
SrcName(i) == PathName(Sources[i])

Attempt(op, ok) == [op |-> op, ok |-> ok]

\* shutil.copy2(src, final): into a directory it goes under the source's name,
\* an existing target is opened for writing through its link
Copy2(fs, i, final) ==
    LET dst == IF final = <<>> \/ final \in fs.dirs THEN final \o <<SrcName(i)>> ELSE final
        raised == IF IsDir(fs, dst) THEN "IsADirectoryError"
                  ELSE IF IsFile(fs, dst) /\ InodeAt(fs, dst) = i THEN "SameFileError"
                  ELSE ""
        n == IF dst \in DOMAIN fs.files THEN InodeAt(fs, dst) ELSE NewInode(fs)
        written ==
            [fs EXCEPT !.files = IF dst \in DOMAIN fs.files THEN fs.files
                                 ELSE (dst :> FileEntry(n)) @@ fs.files,
                       !.data = (n :> fs.data[i]) @@ fs.data,
                       !.alive = IF dst \in DOMAIN fs.files /\ fs.files[dst].kind = "symlink"
                                 THEN [fs.alive EXCEPT ![n] = TRUE]
                                 ELSE fs.alive]
    IN [fs |-> IF raised = "" THEN written ELSE fs,
        error |-> raised,
        attempts |-> <<Attempt("copy", raised = "")>>]

\* shutil.move(src, final) within one filesystem: os.rename replaces the target
Move(fs, i, final) ==
    LET real_dst == IF IsDir(fs, final) THEN final \o <<SrcName(i)>> ELSE final
        raised == IF IsDir(fs, final) /\ Exists(fs, real_dst) THEN "Error" ELSE ""
        same == /\ real_dst \in DOMAIN fs.files
                /\ fs.files[real_dst].kind = "file"
                /\ fs.files[real_dst].ref = i
        renamed ==
            [fs EXCEPT !.files = (real_dst :> FileEntry(i)) @@ fs.files,
                       !.alive = [fs.alive EXCEPT ![i] = FALSE]]
    IN [fs |-> IF raised # "" \/ same THEN fs ELSE renamed,
        error |-> raised,
        attempts |-> <<Attempt("move", raised = "")>>]

\* the symlink branch with the copy tried right after the failed symbolic link
Symlink_skip_hardlink(fs, i, final, sym_cap, hard_cap) ==
    IF sym_cap /\ ~Lexists(fs, final)
    THEN [fs |-> [fs EXCEPT !.files = (final :> LinkEntry(i)) @@ fs.files],
          error |-> "",
          attempts |-> <<Attempt("symlink", TRUE)>>]
    ELSE With(Copy2(fs, i, final),
              LAMBDA copied :
                 [fs |-> copied.fs,
                  error |-> copied.error,
                  attempts |-> <<Attempt("symlink", FALSE)>> \o copied.attempts])

\* the symlink branch: symlink_to, then os.link, then shutil.copy2
Symlink(fs, i, final, sym_cap, hard_cap) ==
    LET sym_ok == sym_cap /\ ~Lexists(fs, final)
        hard_ok == hard_cap /\ ~Lexists(fs, final)
    IN IF sym_ok
       THEN [fs |-> [fs EXCEPT !.files = (final :> LinkEntry(i)) @@ fs.files],
             error |-> "",
             attempts |-> <<Attempt("symlink", TRUE)>>]
       ELSE IF hard_ok
       THEN [fs |-> [fs EXCEPT !.files = (final :> FileEntry(i)) @@ fs.files],
             error |-> "",
             attempts |-> <<Attempt("symlink", FALSE), Attempt("hardlink", TRUE)>>]
       ELSE With(Copy2(fs, i, final),
                 LAMBDA copied :
                    [fs |-> copied.fs,
                     error |-> copied.error,
                     attempts |-> <<Attempt("symlink", FALSE), Attempt("hardlink", FALSE)>>
                                  \o copied.attempts])

Place(fs, i, final, m, sym_cap, hard_cap) ==
    IF m = "move" THEN Move(fs, i, final)
    ELSE IF m = "copy" THEN Copy2(fs, i, final)
    ELSE IF m = "symlink" THEN Symlink(fs, i, final, sym_cap, hard_cap)
    ELSE [fs |-> fs, error |-> "ValueError", attempts |-> <<>>]

(***************************************************************************)
(* safe_write                                                              *)
(***************************************************************************)
\* the arguments of the _unique call of safe_write
WriteArgs(fs, dest) ==
    [suggested |-> NameStem(PathName(dest)) \o NameSuffix(PathName(dest)),
     existing |-> Siblings(fs, PathParent(dest)),
     max_len |-> MAX_REL_PATH_CHARS - RelLen(PathParent(dest)) - 1,
     orig |-> PathName(dest)]

\* safe_write from the choice of the final path on
SafeWritePlace(made, i, final, m, sym_cap, hard_cap, uniq) ==
    With(Place(made, i, final, m, sym_cap, hard_cap),
         LAMBDA placed :
            [fs |-> placed.fs, error |-> placed.error, target |-> final,
             final |-> IF placed.error = "" THEN final ELSE NoPath,
             attempts |-> placed.attempts, uniq |-> uniq])

\* safe_write once dest.parent exists: made is the filesystem after mkdir,
\* enforced the _unique call of enforce_m8_limit (<<>> if it made none)
SafeWriteIn(made, i, dest, enforced, m, sym_cap, hard_cap) ==
    With(EnforceResult(dest, enforced),
         LAMBDA dest1 :
            With(UniqueCall(WriteArgs(made, dest1)),
                 LAMBDA call :
                    SafeWritePlace(made, i, PathJoin(PathParent(dest1), call.result), m,
                                   sym_cap, hard_cap, enforced \o <<call>>)))

\* the result of safe_write(src, dest, m, dst_root, enforce_limit, pack_hint):
\* the filesystem after it, the exception raised, the path returned
\* (NoPath when it raised), the path it chose and the calls and attempts it made
safe_write(fs, i, dest, m, enforce_limit, pack_hint, sym_cap, hard_cap) ==
    IF \E q \in Prefixes(PathParent(dest)) : q \in DOMAIN fs.files
    THEN [fs |-> fs, error |-> "FileExistsError", target |-> NoPath,
          final |-> NoPath, attempts |-> <<>>, uniq |-> <<>>]
    ELSE With([fs EXCEPT !.dirs = fs.dirs \cup Prefixes(PathParent(dest))],
              LAMBDA made :
                 SafeWriteIn(made, i, dest,
                             IF enforce_limit THEN EnforceCall(made, dest, pack_hint)
                             ELSE <<>>,
                             m, sym_cap, hard_cap))

(***************************************************************************)
(* The driver: main()                                                      *)
(***************************************************************************)
Exts ==
    AUDIO_EXTS \cup (IF include_non_audio
                     THEN {".mid", ".midi", ".als", ".adg", ".fxp", ".nki"} ELSE {})

\* cat of the driver for source file i
CatOf(i) == categorize(SrcRoot \o Sources[i])

\* out_path of the driver for every source file: a function of the file's path alone
OutPaths ==
    [i \in SrcIds |->
        LET fname == PathName(Sources[i])
            rel_name == NameStem(fname) \o TagStr(fname) \o NameSuffix(fname)
        IN PathJoin(PathJoin(<<>>, CatOf(i)), rel_name)]

OutPath(i) == OutPaths[i]

\* pack_hint of the driver for source file i, "" for None
PackHint(i) == IF Len(Sources[i]) > 1 THEN Sources[i][1] ELSE ""

Accepted(i) == src_alive[i] /\ norm(NameSuffix(PathName(Sources[i]))) \in Exts

NoCall ==
    [src |-> 0, dest |-> NoPath, mode |-> "", enforce |-> FALSE, target |-> NoPath,
     final |-> NoPath, error |-> "", attempts |-> <<>>, uniq |-> <<>>]

CallTrace(i, dest, m, enforce_limit, r) ==
    [src |-> i, dest |-> dest, mode |-> m, enforce |-> enforce_limit, target |-> r.target,
     final |-> r.final, error |-> r.error, attempts |-> r.attempts, uniq |-> r.uniq]

Record(r, i, dry, out_path, path) ==
    [run |-> r, src |-> i, dry |-> dry, out_path |-> out_path, path |-> path]

Init ==
    /\ mode \in Modes
    /\ include_non_audio \in BOOLEAN
    /\ dry_run \in BOOLEAN
    /\ can_symlink \in BOOLEAN
    /\ can_hardlink \in BOOLEAN
    /\ mode # "symlink" => can_symlink /\ can_hardlink
    /\ \E tree \in Trees :
          /\ src_alive = [i \in SrcIds |-> i \in tree]
          /\ todo = tree
    /\ data = [i \in SrcIds |-> i]
    /\ dst_dirs = {}
    /\ dst_files = <<>>
    /\ run = 1
    /\ records = {}
    /\ error = ""
    /\ last = NoCall
    /\ history = <<>>
    /\ calls = 0

\* the loop body for a file the filters let through
Process(i) ==
    /\ i \in todo
    /\ error = ""
    /\ Accepted(i)
    /\ todo' = todo \ {i}
    /\ IF dry_run
       THEN /\ records' = records \cup {Record(run, i, TRUE, OutPath(i), OutPath(i))}
            /\ UNCHANGED <<src_alive, data, dst_dirs, dst_files, error, last>>
       ELSE \E r \in {safe_write(FS, i, OutPath(i), mode, TRUE, PackHint(i),
                                   can_symlink, can_hardlink)} :
               /\ src_alive' = r.fs.alive
               /\ data' = r.fs.data
               /\ dst_dirs' = r.fs.dirs
               /\ dst_files' = r.fs.files
               /\ error' = r.error
               /\ last' = CallTrace(i, OutPath(i), mode, TRUE, r)
               /\ records' = IF r.error = ""
                             THEN records \cup {Record(run, i, FALSE, OutPath(i), r.final)}
                             ELSE records
    /\ UNCHANGED <<mode, include_non_audio, dry_run, can_symlink, can_hardlink, run,
                   history, calls>>

\* the loop body for a file the filters drop
Skip(i) ==
    /\ i \in todo
    /\ error = ""
    /\ ~Accepted(i)
    /\ todo' = todo \ {i}
    /\ UNCHANGED <<mode, include_non_audio, dry_run, can_symlink, can_hardlink, src_alive,
                   data, dst_dirs, dst_files, run, records, error, last, history, calls>>

\* the driver is invoked again, same --source, --dest and --mode
StartRun ==
    /\ run >= 1
    /\ run < MaxRuns
    /\ todo = {} \/ error # ""
    /\ history' = Append(history, [dry |-> dry_run, ok |-> error = "",
                                   paths |-> DOMAIN dst_files])
    /\ run' = run + 1
    /\ dry_run' \in BOOLEAN
    /\ todo' = {i \in SrcIds : src_alive[i]}
    /\ error' = ""
    /\ UNCHANGED <<mode, include_non_audio, can_symlink, can_hardlink, src_alive, data,
                   dst_dirs, dst_files, records, last, calls>>

Next ==
    \/ \E i \in SrcIds : Process(i)
    \/ \E i \in SrcIds : Skip(i)
    \/ StartRun

Spec == Init /\ [][Next]_vars

(***************************************************************************)
(* safe_write called directly                                              *)
(***************************************************************************)
\* how far the parent directory of a deep destination is from the budget
DeepOver == {-1, 0, 1, 8}

DeepDest(k) ==
    <<Rep("d", DeepLen), Rep("e", MAX_REL_PATH_CHARS - 1 + k - DeepLen - 1), "kick.wav">>

ApiDests == {<<"Drums", "Kicks", "kick.wav">>} \cup {DeepDest(k) : k \in DeepOver}

ApiModes == Modes \cup {"rename"}

InitApi ==
    /\ mode = ""
    /\ include_non_audio = FALSE
    /\ dry_run = FALSE
    /\ can_symlink \in BOOLEAN
    /\ can_hardlink \in BOOLEAN
    /\ src_alive = [i \in SrcIds |-> TRUE]
    /\ todo = {}
    /\ data = [i \in SrcIds |-> i]
    /\ dst_dirs = {}
    /\ dst_files = <<>>
    /\ run = 0
    /\ records = {}
    /\ error = ""
    /\ last = NoCall
    /\ history = <<>>
    /\ calls = 0

ApiCall(i, dest, m, enforce_limit) ==
    /\ calls < MaxCalls
    /\ src_alive[i]
    /\ \E r \in {safe_write(FS, i, dest, m, enforce_limit, PackHint(i),
                              can_symlink, can_hardlink)} :
          /\ src_alive' = r.fs.alive
          /\ data' = r.fs.data
          /\ dst_dirs' = r.fs.dirs
          /\ dst_files' = r.fs.files
          /\ error' = r.error
          /\ last' = CallTrace(i, dest, m, enforce_limit, r)
          /\ records' = IF r.error = ""
                        THEN records \cup {Record(0, i, FALSE, dest, r.final)}
                        ELSE records
    /\ mode' = m
    /\ calls' = calls + 1
    /\ UNCHANGED <<include_non_audio, dry_run, can_symlink, can_hardlink, run, todo, history>>

NextApi ==
    \E i \in 1..2, dest \in ApiDests, m \in ApiModes, enforce_limit \in BOOLEAN :
        ApiCall(i, dest, m, enforce_limit)

SpecApi == InitApi /\ [][NextApi]_vars

(***************************************************************************)
(* Properties                                                              *)
(***************************************************************************)
\* the placements of live runs of the driver
Placed == {x \in records : x.run >= 1 /\ ~x.dry}

\* C1: no two files placed in one live run are returned the same final path.
C1_DistinctFinalPaths ==
    \A x \in Placed : \A y \in Placed :
        (x.run = y.run /\ x.src # y.src) => x.path # y.path

\* C2: every final path the driver's safe_write calls return is, relative to the
\* destination root, at most 128 characters long.
C2_FinalPathWithinBudget ==
    \A x \in Placed : RelLen(x.path) <= MAX_REL_PATH_CHARS

\* a path over the budget was shortened, and a name that was taken was disambiguated
C2_Witness ==
    /\ \E x \in Placed :
          /\ RelLen(x.out_path) > MAX_REL_PATH_CHARS
          /\ RelLen(x.path) <= MAX_REL_PATH_CHARS
          /\ x.run >= 2
          /\ \E y \in Placed : y.run < x.run /\ y.src = x.src /\ y.path # x.path
    /\ error = ""

\* C3: the path a dry run reports for a file is the path the live run that follows it
\* (same source tree, same destination tree) places the file at.
C3_DryRunReportsLivePath ==
    \A x \in records : \A y \in records :
        (x.dry /\ ~y.dry /\ x.run >= 1 /\ y.run = x.run + 1 /\ x.src = y.src)
            => x.path = y.path

\* C4: in copy mode a second live run over the same trees leaves the destination with
\* the set of file paths the first live run left.
C4_SecondRunAddsNoPath ==
    (/\ mode = "copy"
     /\ run >= 2
     /\ todo = {}
     /\ error = ""
     /\ ~dry_run
     /\ ~history[run - 1].dry
     /\ history[run - 1].ok)
        => DOMAIN dst_files = history[run - 1].paths

\* C5: a safe_write call with a mode other than move, copy or symlink raises and
\* leaves the directories and files of the destination tree as they were.
C5_UnknownModeLeavesTree ==
    [][(calls' = calls + 1 /\ mode' \notin Modes)
          => (error' = "ValueError" /\ dst_dirs' = dst_dirs /\ dst_files' = dst_files)]_vars

\* the attempts are symlink, hardlink, copy in this order, each after the failure of
\* the one before
InFallbackOrder(attempts) ==
    /\ Len(attempts) \in 1..3
    /\ \A k \in 1..Len(attempts) :
          /\ attempts[k].op = <<"symlink", "hardlink", "copy">>[k]
          /\ k < Len(attempts) => ~attempts[k].ok

\* C6: in symlink mode the symbolic link is tried first, the hard link only after it
\* failed, the copy only after both failed; when the copy succeeds safe_write returns
\* the final path without an exception and the file is there with the source's content.
C6_FallbackOrder ==
    (last.src # 0 /\ last.mode = "symlink") =>
        /\ InFallbackOrder(last.attempts)
        /\ last.attempts[Len(last.attempts)].ok =>
              /\ last.error = ""
              /\ last.final = last.target
              /\ IsFile(FS, last.final)
              /\ ReadAt(FS, last.final) = data[last.src]
        /\ ~last.attempts[Len(last.attempts)].ok => last.error # ""

\* both links are unsupported and the copy placed the file
C6_Witness ==
    /\ last.src # 0
    /\ last.mode = "symlink"
    /\ ~can_symlink
    /\ ~can_hardlink
    /\ Len(last.attempts) = 3
    /\ last.attempts[3].ok
    /\ IsFile(FS, last.final)

\* the source files whose name contains "break" or "amen", whatever the case
BreakNamed ==
    {i \in SrcIds : Contains(norm(SrcName(i)), "break") \/ Contains(norm(SrcName(i)), "amen")}

\* the source files with the keyword of a rule listed before the Breaks rule in their
\* name or in the name of an ancestor folder
EarlierKeyworded ==
    {i \in SrcIds :
        \E r \in 1..7 : \E k \in 1..Len(CATEGORY_RULES[r].keywords) :
            Contains(norm(Haystack(SrcRoot \o Sources[i])), CATEGORY_RULES[r].keywords[k])}

\* the source files with "loop" in their name
LoopNamed == {i \in SrcIds : Contains(norm(SrcName(i)), "loop")}

CategoryDir(x) == PathParent(x.out_path)

\* C7 as stated: every file whose name contains "break" or "amen" is categorized as
\* Loops/Drums/Breaks.
C7_BreakNameIsBreaks ==
    \A x \in records :
        (x.run >= 1 /\ x.src \in BreakNamed) => CategoryDir(x) = <<"Loops", "Drums", "Breaks">>

\* C7 amended: a file whose name contains "break" or "amen" is never categorized as
\* Loops/Misc, and is categorized as Loops/Drums/Breaks when no keyword of an earlier
\* rule occurs in its name or in an ancestor folder name.
C7_BreakFirstMatch ==
    \A x \in records :
        (x.run >= 1 /\ x.src \in BreakNamed) =>
            /\ CategoryDir(x) # <<"Loops", "Misc">>
            /\ x.src \notin EarlierKeyworded => CategoryDir(x) = <<"Loops", "Drums", "Breaks">>

\* a file named with "amen" and "loop" went to Breaks
C7_Witness ==
    \E x \in records :
        /\ x.run >= 1
        /\ x.src \in BreakNamed
        /\ x.src \in LoopNamed
        /\ CategoryDir(x) = <<"Loops", "Drums", "Breaks">>

\* C8: the final path lies in the candidate's category directory and the final name
\* ends with the candidate's extension.
C8_OnlyStemRewritten ==
    \A x \in Placed :
        /\ PathParent(x.path) = PathParent(x.out_path)
        /\ EndsWith(PathName(x.path), NameSuffix(PathName(x.out_path)))

\* C9: a _unique call with a zero or negative allowed length returns a non-empty name
\* made of characters of the hash disambiguator only.
C9_HashOnlyName ==
    \A k \in 1..Len(last.uniq) :
        last.uniq[k].max_len <= 0 =>
            /\ last.uniq[k].result # ""
            /\ EndsWith("~" \o _sha7(last.uniq[k].orig), last.uniq[k].result)

\* a step keeps every source file and its content
KeepsSources ==
    /\ src_alive' = src_alive
    /\ \A i \in SrcIds : data'[i] = data[i]

\* C10: in copy mode and in symlink mode no step removes a source file or changes
\* the content of one.
C10_SourcesUntouched == [][(mode \in {"copy", "symlink"}) => KeepsSources]_vars

=============================================================================
